---------------------------- MODULE Spec2Model ----------------------------
(***************************************************************************)
(* A model of tradr's allocation planner                                   *)
(* (RiskManager.generate_cash_allocation_plan, src/src/trading/            *)
(* risk_manager.py), of its plan executor                                  *)
(* (TraderClient.execute_allocation_plan, src/src/trading/client.py) and   *)
(* of the trading cycle around them (run_trading_logic_once, src/main.py). *)
(*                                                                         *)
(* Specifications.  Spec is the planner on small accounts, BudgetSpec the  *)
(* planner on accounts around the budget thresholds, ExecSpec the executor *)
(* on arbitrary plans, CycleSpec the cycles with planner and executor, and *)
(* WalkSpec the planner computed in binary64 floats as Python does.        *)
(*                                                                         *)
(* Numbers.  The code computes in Python floats.  Outside WalkSpec the     *)
(* model computes the same expressions exactly, in integers, which is      *)
(* what the floats give except for rounding in the last place:             *)
(*   - account values and share prices are whole dollars;                  *)
(*   - held quantities are in 1/QtyUnit shares and signal strengths in     *)
(*     1/StrengthUnit, so int(qty * strength) is a floor division;         *)
(*   - dollar amounts derived from them are in 1/MoneyUnit dollars, so     *)
(*     that the factors 0.25, 0.6, 0.4 and 0.08 stay exact;                *)
(*   - the amounts of a plan are numerators over the plan's denominator    *)
(*     plan.den, which is total_strength (in 1/StrengthUnit) when there    *)
(*     are buy candidates: (strength / total_strength) * budget_allocation *)
(*     is the numerator strength * budget_allocation.                      *)
(***************************************************************************)
EXTENDS Integers, Sequences, FiniteSets, TLC

VARIABLES
    account,      \* the broker's account snapshot: cash, buying_power, portfolio_value
    positions,    \* the broker's positions, in the order get_positions lists them
    pending,      \* the broker's open orders, as get_pending_orders lists them
    signals,      \* trading_signals: three mappings, each in insertion order
    plan,         \* the allocation plan, once generate_cash_allocation_plan returned
    pc,           \* where the cycle is
    sell_actions, \* execute_allocation_plan: the plan's sell actions
    buy_actions,  \* execute_allocation_plan: the plan's buy actions
    idx,          \* execute_allocation_plan: actions of the current loop already handled
    executed,     \* execute_allocation_plan: executed
    failed,       \* execute_allocation_plan: failed
    total_bought, \* execute_allocation_plan: total_bought (numerator over plan.den)
    total_sold,   \* execute_allocation_plan: total_sold (numerator over plan.den)
    submitted,    \* every order submission the broker received, in order
    audit,        \* the rows save_action inserted
    result,       \* what execute_allocation_plan returned
    cycle         \* run_trading_logic_once: which cycle, what failed in it and where

vars == <<account, positions, pending, signals, plan, pc, sell_actions, buy_actions,
          idx, executed, failed, total_bought, total_sold, submitted, audit, result,
          cycle>>

---------------------------------------------------------------------------
(* Bounds of the model *)

MaxPending == 1
MaxSignals == 2
MaxPlanActions == 3
MaxCycles == 2

(* Units of the integer representation *)

QtyUnit == 10
StrengthUnit == 10
MoneyUnit == 1000

(* Program constants *)

MinReserve == 1000        \* max(1000, buying_power * 0.25)
ReservePct == 25          \* buying_power * 0.25, in percent
MaxPositionPct == 8       \* portfolio_value * 0.08, in percent
AvailablePct == 60        \* total_available_for_buys * 0.6, in percent
BuyingPowerPct == 40      \* buying_power * 0.4, in percent
MinBudget == 100          \* budget_allocation > 100
MinTrade == 50            \* allocation >= 50
MinWeight == 5            \* max(0.5, strength), in 1/StrengthUnit
DefaultStrength == 5      \* signal.get("strength", 0.5), in 1/StrengthUnit
SellThreshold == 7        \* strength >= 0.7, in 1/StrengthUnit
CandidateThreshold == 6   \* strength >= 0.6, in 1/StrengthUnit
DefaultPrice == 100       \* current_price = 100

---------------------------------------------------------------------------
(* Helpers *)

Max(a, b) == IF a >= b THEN a ELSE b
Min(a, b) == IF a <= b THEN a ELSE b

Range(s) == {s[i] : i \in 1..Len(s)}

(* The sequences over S with at most n elements. *)
SeqsUpTo(S, n) == UNION {[1..k -> S] : k \in 0..n}

(* Those whose elements have different symbols: the items of a dict keyed by *)
(* symbol, in insertion order.                                               *)
DistinctSeqs(S, n) ==
    {s \in SeqsUpTo(S, n) : \A i, j \in 1..Len(s) : i < j => s[i].symbol # s[j].symbol}

---------------------------------------------------------------------------
(* Inputs *)

Symbols == {"AAPL", "TSLA"}

CashValues == {-500, 10000}
BuyingPowerValues == {1200, 10000}
PortfolioValues == {1000, 10000}

Accounts == [cash : CashValues, buying_power : BuyingPowerValues,
             portfolio_value : PortfolioValues]

(* 0.5 shares and 100 shares *)
QtyValues == {5, 1000}
PositionPrices == {50}

Positions == [symbol : Symbols, qty : QtyValues, current_price : PositionPrices]

Sides == {"buy", "sell"}
Orders == [symbol : Symbols, side : Sides, qty : {1}]

(* A signal is a dict whose "strength" key may be missing. *)
SignalValues ==
    [action : {"buy"}, strength : {3, 6, 9}] \cup [action : {"buy"}]
    \cup [action : {"sell"}, strength : {5, 7, 10}] \cup [action : {"sell"}]
    \cup [action : {"hold", "strong_buy"}, strength : {9}]

Entries == [symbol : Symbols, signal : SignalValues]

(* What get_daily_prices_alpha_vantage gives: it raises, it returns the JSON *)
(* object of the response, or a list whose first element has a close.       *)
FetchResults == {[kind |-> "raise", close |-> 0], [kind |-> "dict", close |-> 0],
                 [kind |-> "list", close |-> 20], [kind |-> "list", close |-> 50]}

---------------------------------------------------------------------------
(* generate_cash_allocation_plan *)

(* signal.get("action", "hold") and signal.get("strength", 0.5) *)
ActionOf(sig) == IF "action" \in DOMAIN sig THEN sig.action ELSE "hold"
StrengthOf(sig) == IF "strength" \in DOMAIN sig THEN sig.strength ELSE DefaultStrength

(* A faulty variant: the symbols with an open order of the other side *)
PendingSymbolsOfOtherSide(orders, side) ==
    {o.symbol : o \in {p \in Range(orders) : p.side # side}}

(* The keys of pending_buy_symbols / pending_sell_symbols *)
PendingSymbols(orders, side) == {o.symbol : o \in {p \in Range(orders) : p.side = side}}

RECURSIVE PendingQty(_, _, _)
PendingQty(orders, side, symbol) ==
    IF orders = <<>> THEN 0
    ELSE (IF Head(orders).side = side /\ Head(orders).symbol = symbol
          THEN Head(orders).qty ELSE 0) + PendingQty(Tail(orders), side, symbol)

(* pending_buy_symbols / pending_sell_symbols: symbol -> summed quantity *)
PendingMap(orders, side) ==
    [s \in PendingSymbols(orders, side) |-> PendingQty(orders, side, s)]

HeldSymbols(pos) == {p.symbol : p \in Range(pos)}

(* mapping.get(symbol, {}) on a mapping kept as its items in insertion order *)
Lookup(mapping, symbol) ==
    IF \E i \in 1..Len(mapping) : mapping[i].symbol = symbol
    THEN mapping[CHOOSE i \in 1..Len(mapping) : mapping[i].symbol = symbol].signal
    ELSE <<>>

safe_cash_reserve(acc) ==
    Max(MinReserve * MoneyUnit, (acc.buying_power * ReservePct * MoneyUnit) \div 100)

(* sell_qty = max(1, int(qty * strength)), in whole shares *)
SellQty(qty, strength) == Max(1, (qty * strength) \div (QtyUnit * StrengthUnit))

(* A faulty variant: the threshold is exclusive *)
SellsPositionStrict(p, sigs, orders) ==
    LET signal == Lookup(sigs.portfolio_signals, p.symbol)
    IN /\ p.symbol \notin PendingSymbols(orders, "sell")
       /\ ActionOf(signal) = "sell"
       /\ StrengthOf(signal) > SellThreshold

(* Whether the sell phase emits an action for a position *)
SellsPosition(p, sigs, orders) ==
    LET signal == Lookup(sigs.portfolio_signals, p.symbol)
    IN /\ p.symbol \notin PendingSymbols(orders, "sell")
       /\ ActionOf(signal) = "sell"
       /\ StrengthOf(signal) >= SellThreshold

(* The sell action of a position; price_allocation in 1/MoneyUnit dollars.  *)
(* current_price is the price the quantity was computed at (a local of the  *)
(* code, kept with the action).                                             *)
SellAction(p, sigs) ==
    LET strength == StrengthOf(Lookup(sigs.portfolio_signals, p.symbol))
        sell_qty == SellQty(p.qty, strength)
    IN [symbol |-> p.symbol, action |-> "sell", quantity |-> sell_qty,
        price_allocation |-> sell_qty * p.current_price * MoneyUnit,
        strength |-> strength, current_price |-> p.current_price]

(* The sell phase: the sell actions, in the order of the positions *)
RECURSIVE SellPhase(_, _, _)
SellPhase(pos, sigs, orders) ==
    IF pos = <<>> THEN <<>>
    ELSE (IF SellsPosition(Head(pos), sigs, orders)
          THEN <<SellAction(Head(pos), sigs)>> ELSE <<>>)
         \o SellPhase(Tail(pos), sigs, orders)

RECURSIVE SumAllocation(_)
SumAllocation(actions) ==
    IF actions = <<>> THEN 0
    ELSE Head(actions).price_allocation + SumAllocation(Tail(actions))

(* A faulty variant: what is available is the buying power above the        *)
(* reserve, whatever the cash                                               *)
AvailableOfBuyingPower(acc, sell_proceeds) ==
    Max(0, acc.buying_power * MoneyUnit - safe_cash_reserve(acc))

(* A faulty variant: the reserve is not taken off what is available *)
AvailableWithoutReserve(acc, sell_proceeds) ==
    Max(0, Min(acc.cash * MoneyUnit + sell_proceeds, acc.buying_power * MoneyUnit))

(* total_available_for_buys, in 1/MoneyUnit dollars *)
AvailableForBuys(acc, sell_proceeds) ==
    LET reserve == safe_cash_reserve(acc)
        raw == acc.cash * MoneyUnit + sell_proceeds - reserve
    IN Max(0, Min(raw, acc.buying_power * MoneyUnit - reserve))

max_per_position(acc) == (acc.portfolio_value * MaxPositionPct * MoneyUnit) \div 100

(* A faulty variant: the budget is not capped to 40% of the buying power *)
BudgetOfAvailableOnly(acc, sell_proceeds) ==
    (AvailableForBuys(acc, sell_proceeds) * AvailablePct) \div 100

budget_allocation(acc, sell_proceeds) ==
    Min((AvailableForBuys(acc, sell_proceeds) * AvailablePct) \div 100,
        (acc.buying_power * BuyingPowerPct * MoneyUnit) \div 100)

(* A faulty variant: new_buy_candidates are not checked against the pending buy orders *)
IsCandidateUnchecked(mapping_name, e, held, pending_buys) ==
    LET sig == e.signal
        action == IF "action" \in DOMAIN sig THEN sig.action ELSE "none"
    IN CASE mapping_name = "portfolio_signals" ->
              action = "buy" /\ e.symbol \in held /\ e.symbol \notin pending_buys
         [] mapping_name = "news_opportunities" ->
              /\ e.symbol \notin held /\ action \in {"buy", "strong_buy"}
              /\ e.symbol \notin pending_buys
         [] OTHER ->
              /\ e.symbol \notin held /\ action = "buy"
              /\ StrengthOf(sig) >= CandidateThreshold

(* A faulty variant: news_opportunities are taken for held symbols too *)
IsCandidateHeldOrNot(mapping_name, e, held, pending_buys) ==
    LET sig == e.signal
        action == IF "action" \in DOMAIN sig THEN sig.action ELSE "none"
    IN /\ e.symbol \notin pending_buys
       /\ CASE mapping_name = "portfolio_signals" ->
                 action = "buy" /\ e.symbol \in held
            [] mapping_name = "news_opportunities" ->
                 action \in {"buy", "strong_buy"}
            [] OTHER ->
                 /\ e.symbol \notin held /\ action = "buy"
                 /\ StrengthOf(sig) >= CandidateThreshold

(* A faulty variant: new_buy_candidates of any strength are taken *)
IsCandidateAnyStrength(mapping_name, e, held, pending_buys) ==
    LET sig == e.signal
        action == IF "action" \in DOMAIN sig THEN sig.action ELSE "none"
    IN /\ e.symbol \notin pending_buys
       /\ CASE mapping_name = "portfolio_signals" ->
                 action = "buy" /\ e.symbol \in held
            [] mapping_name = "news_opportunities" ->
                 e.symbol \notin held /\ action \in {"buy", "strong_buy"}
            [] OTHER ->
                 e.symbol \notin held /\ action = "buy"

(* The buy candidates of one mapping, in its insertion order.  A held       *)
(* symbol is taken from portfolio_signals only, a symbol not held from the  *)
(* two other mappings; a symbol with a pending buy order is skipped.        *)
IsCandidate(mapping_name, e, held, pending_buys) ==
    LET sig == e.signal
        action == IF "action" \in DOMAIN sig THEN sig.action ELSE "none"
    IN /\ e.symbol \notin pending_buys
       /\ CASE mapping_name = "portfolio_signals" ->
                 action = "buy" /\ e.symbol \in held
            [] mapping_name = "news_opportunities" ->
                 e.symbol \notin held /\ action \in {"buy", "strong_buy"}
            [] OTHER ->
                 /\ e.symbol \notin held /\ action = "buy"
                 /\ StrengthOf(sig) >= CandidateThreshold

PriorityOf(mapping_name) ==
    CASE mapping_name = "portfolio_signals" -> 3
      [] mapping_name = "news_opportunities" -> 2
      [] OTHER -> 1

CategoryOf(mapping_name) ==
    CASE mapping_name = "portfolio_signals" -> "portfolio_increase"
      [] mapping_name = "news_opportunities" -> "news_opportunity"
      [] OTHER -> "new_candidate"

RECURSIVE CandidatesOf(_, _, _, _)
CandidatesOf(mapping_name, mapping, held, pending_buys) ==
    IF mapping = <<>> THEN <<>>
    ELSE (IF IsCandidate(mapping_name, Head(mapping), held, pending_buys)
          THEN <<[symbol |-> Head(mapping).symbol,
                  strength |-> StrengthOf(Head(mapping).signal),
                  priority |-> PriorityOf(mapping_name),
                  category |-> CategoryOf(mapping_name)]>>
          ELSE <<>>)
         \o CandidatesOf(mapping_name, Tail(mapping), held, pending_buys)

(* buy_candidates before the sort *)
BuyCandidates(sigs, pos, orders) ==
    LET held == HeldSymbols(pos)
        pending_buys == PendingSymbols(orders, "buy")
    IN CandidatesOf("portfolio_signals", sigs.portfolio_signals, held, pending_buys)
       \o CandidatesOf("news_opportunities", sigs.news_opportunities, held, pending_buys)
       \o CandidatesOf("new_buy_candidates", sigs.new_buy_candidates, held, pending_buys)

(* A faulty variant: the sort key is -strength alone *)
KeyLessByStrength(a, b) == a.strength > b.strength

(* The sort key (-priority, -strength) of a is smaller than that of b *)
KeyLess(a, b) ==
    \/ a.priority > b.priority
    \/ a.priority = b.priority /\ a.strength > b.strength

(* list.sort is stable: c goes before the first element whose key is larger *)
RECURSIVE InsertSorted(_, _)
InsertSorted(sorted, c) ==
    IF sorted = <<>> THEN <<c>>
    ELSE IF KeyLess(c, Head(sorted)) THEN <<c>> \o sorted
    ELSE <<Head(sorted)>> \o InsertSorted(Tail(sorted), c)

RECURSIVE SortCandidates(_)
SortCandidates(cands) ==
    IF cands = <<>> THEN <<>>
    ELSE InsertSorted(SortCandidates(SubSeq(cands, 1, Len(cands) - 1)), cands[Len(cands)])

(* A faulty variant: the weight is the strength, without the floor of 0.5 *)
StrengthAsWeight(c) == c.strength

(* max(0.5, c["strength"]) *)
Weight(c) == Max(MinWeight, c.strength)

RECURSIVE total_strength(_)
total_strength(cands) ==
    IF cands = <<>> THEN 0 ELSE Weight(Head(cands)) + total_strength(Tail(cands))

(* The denominator of a plan's amounts *)
Denominator(cands) == IF cands = <<>> THEN 1 ELSE total_strength(cands)

(* A faulty variant: the allocation is not capped to max_per_position *)
AllocationUncapped(c, budget, max_pos, den, total_buy) ==
    LET proportional == Weight(c) * budget
    IN IF total_buy + proportional > budget * den
       THEN Max(0, budget * den - total_buy)
       ELSE proportional

(* allocation of a candidate before the checks, as a numerator over         *)
(* total_strength: (strength / total_strength) * budget_allocation, capped  *)
(* to max_per_position and to what is left of the budget.                   *)
Allocation(c, budget, max_pos, den, total_buy) ==
    LET proportional == Weight(c) * budget
        capped == Min(proportional, max_pos * den)
    IN IF total_buy + capped > budget * den
       THEN Max(0, budget * den - total_buy)
       ELSE capped

(* current_price of a fetched price history *)
FetchedPrice(fetch) == IF fetch.kind = "list" THEN fetch.close ELSE DefaultPrice

(* A faulty variant: no minimum trade size *)
AnyTradeSize(allocation, den) == allocation >= 0

(* allocation >= 50, the minimum trade size *)
MeetsMinimum(allocation, den) == allocation >= MinTrade * MoneyUnit * den

(* One pass of the loop over buy_candidates.  walk holds actions,           *)
(* total_buy_allocation and remaining_buying_power.                         *)
BuyStep(c, walk, budget, max_pos, den, feed) ==
    LET allocation == Allocation(c, budget, max_pos, den, walk.total_buy_allocation)
        fetch == feed[c.symbol]
        current_price == FetchedPrice(fetch)
        quantity == allocation \div (current_price * MoneyUnit * den)
    IN IF allocation > walk.remaining_buying_power THEN walk
       ELSE IF ~MeetsMinimum(allocation, den) THEN walk
       ELSE IF fetch.kind = "raise" THEN walk
       ELSE IF quantity > 0
       THEN [actions |-> Append(walk.actions,
                [symbol |-> c.symbol, action |-> "buy", quantity |-> quantity,
                 price_allocation |-> allocation, strength |-> Weight(c),
                 category |-> c.category, current_price |-> current_price]),
             total_buy_allocation |-> walk.total_buy_allocation + allocation,
             remaining_buying_power |-> walk.remaining_buying_power - allocation]
       ELSE walk

RECURSIVE BuyWalk(_, _, _, _, _, _)
BuyWalk(cands, walk, budget, max_pos, den, feed) ==
    IF cands = <<>> THEN walk
    ELSE BuyWalk(Tail(cands), BuyStep(Head(cands), walk, budget, max_pos, den, feed),
                 budget, max_pos, den, feed)

(* A faulty variant: the buy phase runs whatever the budget *)
BuyPhaseAnyBudget(acc, cands, budget, den, feed) ==
    LET start == [actions |-> <<>>, total_buy_allocation |-> 0,
                  remaining_buying_power |->
                      (acc.buying_power * MoneyUnit - safe_cash_reserve(acc)) * den]
    IN IF Len(cands) > 0
       THEN BuyWalk(cands, start, budget, max_per_position(acc), den, feed)
       ELSE start

(* The buy phase: nothing when the budget is at most $100 *)
BuyPhase(acc, cands, budget, den, feed) ==
    LET start == [actions |-> <<>>, total_buy_allocation |-> 0,
                  remaining_buying_power |->
                      (acc.buying_power * MoneyUnit - safe_cash_reserve(acc)) * den]
    IN IF budget > MinBudget * MoneyUnit /\ Len(cands) > 0
       THEN BuyWalk(cands, start, budget, max_per_position(acc), den, feed)
       ELSE start

(* A faulty variant: final_cash is not clamped *)
FinalCashUnclamped(cash, sell_proceeds, buy_allocation) ==
    cash + sell_proceeds - buy_allocation

(* final_cash and total_allocation: the clamp of a negative final_cash *)
FinalCash(cash, sell_proceeds, buy_allocation) ==
    Max(0, cash + sell_proceeds - buy_allocation)

TotalAllocation(cash, sell_proceeds, buy_allocation) ==
    IF cash + sell_proceeds - buy_allocation < 0
    THEN cash + sell_proceeds
    ELSE sell_proceeds + buy_allocation

(* The plan generate_cash_allocation_plan returns.  Every amount is a       *)
(* numerator over den.  total_sell_proceeds, total_buy_allocation and       *)
(* budget_allocation and the sorted buy_candidates are locals of the code,  *)
(* kept with the plan, as is what get_daily_prices_alpha_vantage answers    *)
(* for each candidate symbol.                                               *)
GeneratePlan(acc, pos, orders, sigs, feed) ==
    LET sells == SellPhase(pos, sigs, orders)
        sell_proceeds == SumAllocation(sells)
        budget == budget_allocation(acc, sell_proceeds)
        cands == SortCandidates(BuyCandidates(sigs, pos, orders))
        den == Denominator(cands)
        walk == BuyPhase(acc, cands, budget, den, feed)
        scaled_sells == [i \in 1..Len(sells) |->
            [sells[i] EXCEPT !.price_allocation = sells[i].price_allocation * den]]
        actions == scaled_sells \o walk.actions
        cash == acc.cash * MoneyUnit * den
    IN [actions |-> actions,
        den |-> den,
        cash_available |-> cash,
        cash_remaining |-> FinalCash(cash, sell_proceeds * den, walk.total_buy_allocation),
        total_allocation |->
            TotalAllocation(cash, sell_proceeds * den, walk.total_buy_allocation),
        portfolio_value |-> acc.portfolio_value,
        num_actions |-> Len(actions),
        pending_buys |-> PendingMap(orders, "buy"),
        pending_sells |-> PendingMap(orders, "sell"),
        total_sell_proceeds |-> sell_proceeds * den,
        total_buy_allocation |-> walk.total_buy_allocation,
        budget_allocation |-> budget * den,
        candidates |-> cands,
        price_history |-> feed]

---------------------------------------------------------------------------
(* The cycle *)

NoPlan == [actions |-> <<>>, den |-> 1, num_actions |-> 0]
NoResult == [returned |-> FALSE]
NoError == [call |-> "none", at |-> "none"]

(* The three calls of the model (GeminiQuerier) and what their output may be *)
LLMCalls == {"analyze_sentiment_batch", "predict_price_movement", "analyze_trading_signal"}
Shapes == {"none", "ok", "unparseable", "list", "scalar", "entry_not_object"}

(* A cycle that has not called anything yet; earlier holds what reached the *)
(* handler of run_trading_logic_once in the cycles before                   *)
FreshCycle(n) ==
    [n |-> n, error |-> NoError, recovered |-> {}, planned |-> FALSE,
     articles |-> FALSE, tickers |-> FALSE, earlier |-> {},
     shape |-> [c \in LLMCalls |-> "none"]]

(* trading_signals with at most MaxSignals entries over its three mappings *)
SignalSets ==
    UNION {[portfolio_signals : {s \in DistinctSeqs(Entries, MaxSignals) : Len(s) = n[1]},
            news_opportunities : {s \in DistinctSeqs(Entries, MaxSignals) : Len(s) = n[2]},
            new_buy_candidates : {s \in DistinctSeqs(Entries, MaxSignals) : Len(s) = n[3]}] :
           n \in {m \in [1..3 -> 0..MaxSignals] : m[1] + m[2] + m[3] <= MaxSignals}}

ExecutorIdle ==
    /\ sell_actions = <<>> /\ buy_actions = <<>> /\ idx = 0
    /\ executed = <<>> /\ failed = <<>>
    /\ total_bought = 0 /\ total_sold = 0
    /\ submitted = <<>> /\ audit = <<>> /\ result = NoResult

(* A cycle about to plan: the broker's state and the signals of the cycle *)
Init ==
    /\ account \in Accounts
    /\ positions \in DistinctSeqs(Positions, Cardinality(Symbols))
    /\ pending \in SeqsUpTo(Orders, MaxPending)
    /\ signals \in SignalSets
    /\ plan = NoPlan
    /\ pc = "plan"
    /\ ExecutorIdle
    /\ cycle = FreshCycle(1)

executor_vars == <<sell_actions, buy_actions, idx, executed, failed, total_bought,
                   total_sold, submitted, audit, result>>
input_vars == <<account, positions, pending, signals>>

(* generate_cash_allocation_plan returns a plan *)
Plan ==
    /\ pc = "plan"
    /\ \E feed \in [{c.symbol : c \in Range(BuyCandidates(signals, positions, pending))}
                        -> FetchResults] :
           plan' = GeneratePlan(account, positions, pending, signals, feed)
    /\ pc' = "planned"
    /\ UNCHANGED <<cycle, input_vars, executor_vars>>

---------------------------------------------------------------------------
(* execute_allocation_plan *)

(* The plans execute_allocation_plan may be handed: any actions, in any order *)
PlanActions == [symbol : Symbols, action : Sides, quantity : {1, 16},
                price_allocation : {800}]

ExecInit ==
    /\ account = [cash |-> 10000, buying_power |-> 10000, portfolio_value |-> 10000]
    /\ positions = <<>>
    /\ pending = <<>>
    /\ signals = [portfolio_signals |-> <<>>, news_opportunities |-> <<>>,
                  new_buy_candidates |-> <<>>]
    /\ \E actions \in SeqsUpTo(PlanActions, MaxPlanActions) :
           plan = [actions |-> actions, den |-> 1, num_actions |-> Len(actions)]
    /\ pc = "execute"
    /\ ExecutorIdle
    /\ cycle = FreshCycle(1)

(* A faulty variant: the two lists are swapped *)
ActionsOfOtherSide(actions, side) == SelectSeq(actions, LAMBDA a : a.action # side)

(* sell_actions = [a for a in actions if a["action"] == "sell"], and the buys *)
ActionsOfSide(actions, side) == SelectSeq(actions, LAMBDA a : a.action = side)

(* The lists are built and the sell loop is entered *)
StartExecute ==
    /\ pc = "execute"
    /\ sell_actions' = ActionsOfSide(plan.actions, "sell")
    /\ buy_actions' = ActionsOfSide(plan.actions, "buy")
    /\ executed' = <<>> /\ failed' = <<>>
    /\ total_bought' = 0 /\ total_sold' = 0
    /\ idx' = 0
    /\ pc' = "sells"
    /\ UNCHANGED <<cycle, input_vars, plan, submitted, audit, result>>

(* market_sell / market_buy: the market order handed to the broker *)
MarketOrder(action) ==
    [symbol |-> action.symbol, side |-> action.action, qty |-> action.quantity]

(* What the broker keeps of a submission: the order, whether it accepted it *)
(* and the id it gave it                                                     *)
Submission(order, accepted, id) ==
    [symbol |-> order.symbol, side |-> order.side, qty |-> order.qty,
     accepted |-> accepted, id |-> id]

ExecutedEntry(action, order_id) ==
    [symbol |-> action.symbol, action |-> action.action, quantity |-> action.quantity,
     order_id |-> order_id, status |-> "accepted"]

FailedEntry(action) ==
    [symbol |-> action.symbol, action |-> action.action, quantity |-> action.quantity,
     error |-> "rejected"]

AuditRow(action, order_id) ==
    [symbol |-> action.symbol, action |-> action.action, quantity |-> action.quantity,
     price_allocation |-> action.price_allocation,
     order_id |-> order_id, status |-> "accepted"]

(* One pass of either loop.  The broker accepts the order or raises; after  *)
(* an accepted order save_action inserts a row, or fails and says so only   *)
(* on the console.                                                          *)
Submit(action) ==
    LET order == MarketOrder(action)
        order_id == Len(submitted) + 1
    IN \/ /\ submitted' = Append(submitted, Submission(order, TRUE, order_id))
          /\ executed' = Append(executed, ExecutedEntry(action, order_id))
          /\ IF action.action = "sell"
             THEN total_sold' = total_sold + action.price_allocation
                  /\ UNCHANGED total_bought
             ELSE total_bought' = total_bought + action.price_allocation
                  /\ UNCHANGED total_sold
          /\ \/ audit' = Append(audit, AuditRow(action, order_id))
             \/ UNCHANGED audit
          /\ UNCHANGED failed
       \/ /\ submitted' = Append(submitted, Submission(order, FALSE, 0))
          /\ failed' = Append(failed, FailedEntry(action))
          /\ UNCHANGED <<executed, total_bought, total_sold, audit>>

SubmitSell ==
    /\ pc = "sells"
    /\ idx < Len(sell_actions)
    /\ Submit(sell_actions[idx + 1])
    /\ idx' = idx + 1
    /\ UNCHANGED <<cycle, input_vars, plan, pc, sell_actions, buy_actions, result>>

(* The sell loop is over: the buy loop is entered *)
EndSells ==
    /\ pc = "sells"
    /\ idx = Len(sell_actions)
    /\ idx' = 0
    /\ pc' = "buys"
    /\ UNCHANGED <<cycle, input_vars, plan, sell_actions, buy_actions, executed, failed,
                   total_bought, total_sold, submitted, audit, result>>

SubmitBuy ==
    /\ pc = "buys"
    /\ idx < Len(buy_actions)
    /\ Submit(buy_actions[idx + 1])
    /\ idx' = idx + 1
    /\ UNCHANGED <<cycle, input_vars, plan, pc, sell_actions, buy_actions, result>>

(* A faulty variant: the rate is taken over the executed actions only *)
SuccessRateOfExecuted(n_executed, n_failed) ==
    IF n_executed + n_failed > 0
    THEN [num |-> n_executed, den |-> IF n_executed > 0 THEN n_executed ELSE 1]
    ELSE [num |-> 0, den |-> 1]

(* success_rate, as a fraction *)
SuccessRate(n_executed, n_failed) ==
    IF n_executed + n_failed > 0
    THEN [num |-> n_executed, den |-> n_executed + n_failed]
    ELSE [num |-> 0, den |-> 1]

ExecutionResult ==
    [returned |-> TRUE,
     executed_actions |-> executed,
     failed_actions |-> failed,
     total_bought |-> total_bought,
     total_sold |-> total_sold,
     orders_placed |-> Len(executed),
     orders_failed |-> Len(failed),
     success_rate |-> SuccessRate(Len(executed), Len(failed))]

(* The buy loop is over: get_account, then the result; or get_account raises *)
FinishExecute ==
    /\ pc = "buys"
    /\ idx = Len(buy_actions)
    /\ \/ result' = ExecutionResult /\ pc' = "done"
       \/ UNCHANGED result /\ pc' = "raised"
    /\ UNCHANGED <<cycle, input_vars, plan, sell_actions, buy_actions, idx, executed, failed,
                   total_bought, total_sold, submitted, audit>>

ExecNext == StartExecute \/ SubmitSell \/ EndSells \/ SubmitBuy \/ FinishExecute

ExecSpec == ExecInit /\ [][ExecNext]_vars

---------------------------------------------------------------------------
(* run_trading_logic_once and run_trading_logic_loop *)

(* The broker's queries *)
BrokerQueries == {"get_account", "get_positions", "get_pending_orders"}

(* The calls for news, quotes and prices, and the calls of the model *)
UpstreamCalls ==
    {"fetch_trending_news", "get_current_price_alpha_vantage",
     "get_daily_prices_alpha_vantage"} \cup LLMCalls

(* Parsed output that is not the JSON object of objects the code reads *)
WrongShapes == {"list", "scalar", "entry_not_object"}

EmptySignals ==
    [portfolio_signals |-> <<>>, news_opportunities |-> <<>>, new_buy_candidates |-> <<>>]

(* What the broker holds and what analyze_trading_signal answers in a cycle *)
CyclePositions == {<<>>, <<[symbol |-> "AAPL", qty |-> 1000, current_price |-> 50]>>}

CycleSignals ==
    LET sell == <<[symbol |-> "AAPL", signal |-> [action |-> "sell", strength |-> 7]]>>
        buy == <<[symbol |-> "TSLA", signal |-> [action |-> "buy", strength |-> 9]]>>
    IN {EmptySignals,
        [EmptySignals EXCEPT !.portfolio_signals = sell],
        [EmptySignals EXCEPT !.news_opportunities = buy],
        [EmptySignals EXCEPT !.portfolio_signals = sell, !.news_opportunities = buy]}

CycleInit ==
    /\ account = [cash |-> 10000, buying_power |-> 10000, portfolio_value |-> 10000]
    /\ positions \in CyclePositions
    /\ pending = <<>>
    /\ signals = EmptySignals
    /\ plan = NoPlan
    /\ pc = "construct"
    /\ ExecutorIdle
    /\ cycle = FreshCycle(1)

(* A faulty variant: RiskManager() is constructed before the try *)
CatchesAfterConstruction(call) == call # "RiskManager"

(* try: ... except Exception: the whole body of run_trading_logic_once is   *)
(* inside the try, whatever call raised                                     *)
CycleCatches(call) == TRUE

(* A faulty variant: the exception is noted and the cycle stays where it is *)
RaiseAndRetry(c, call, at) ==
    /\ cycle' = [c EXCEPT !.error = [call |-> call, at |-> at]]
    /\ pc' = pc

(* An exception no callee handles reaches run_trading_logic_once, which     *)
(* prints it and returns.  c is the cycle's record when the call raised.    *)
Raise(c, call, at) ==
    /\ cycle' = [c EXCEPT !.error = [call |-> call, at |-> at]]
    /\ pc' = IF CycleCatches(call) THEN "returned" ELSE "escaped"

(* A callee handled the failure of a call and went on with a default *)
Recovered(c, call) == [c EXCEPT !.recovered = @ \cup {call}]

(* risk_manager = RiskManager(): the fetchers, the model, the broker client *)
Construct ==
    /\ pc = "construct"
    /\ \/ pc' = "news" /\ UNCHANGED cycle
       \/ Raise(cycle, "RiskManager", "run_trading_logic_once")
    /\ UNCHANGED <<input_vars, plan, executor_vars>>

(* check_news: fetch_trending_news()['articles'], with or without articles *)
FetchNews ==
    /\ pc = "news"
    /\ \/ \E some \in BOOLEAN :
              cycle' = [cycle EXCEPT !.articles = some] /\ pc' = "sentiment"
       \/ Raise(cycle, "fetch_trending_news", "check_news")
    /\ UNCHANGED <<input_vars, plan, executor_vars>>

(* score_news: analyze_sentiment_batch.  generate_content raises; or the    *)
(* text does not parse (neutral defaults); or it parses: a list has none of *)
(* the keys (neutral defaults), a scalar makes `article_key in parsed`      *)
(* raise when there is an article, entries are kept whatever they are.      *)
(* analyze_news returns {} without articles.                                *)
AnalyzeSentiment ==
    /\ pc = "sentiment"
    /\ \/ Raise(cycle, "analyze_sentiment_batch", "score_news")
       \/ \E s \in Shapes \ {"none"} :
              LET c == [cycle EXCEPT !.shape["analyze_sentiment_batch"] = s]
              IN IF s = "scalar" /\ cycle.articles
                 THEN Raise(c, "analyze_sentiment_batch", "score_news")
                 ELSE /\ cycle' = IF s \in {"unparseable", "list"}
                                  THEN Recovered(c, "analyze_sentiment_batch") ELSE c
                      /\ pc' = IF cycle.articles THEN "predict" ELSE "holdings"
    /\ UNCHANGED <<input_vars, plan, executor_vars>>

(* analyze_news: predict_price_movement.  generate_content raises; or the   *)
(* text does not parse, or is a scalar (no prediction); or it is a list or  *)
(* an object of objects (predictions); or an entry is not an object and     *)
(* item.get raises.                                                         *)
PredictMovement ==
    /\ pc = "predict"
    /\ \/ Raise(cycle, "predict_price_movement", "analyze_news")
       \/ \E s \in Shapes \ {"none"} :
              LET c == [cycle EXCEPT !.shape["predict_price_movement"] = s]
              IN IF s = "entry_not_object"
                 THEN Raise(c, "predict_price_movement", "analyze_news")
                 ELSE /\ cycle' = IF s \in {"unparseable", "scalar"}
                                  THEN Recovered(c, "predict_price_movement") ELSE c
                      /\ pc' = IF s \in {"ok", "list"} THEN "validate" ELSE "holdings"
    /\ UNCHANGED <<input_vars, plan, executor_vars>>

(* validate_ticker: a quote per predicted ticker, outside any try *)
ValidateTicker ==
    /\ pc = "validate"
    /\ \/ \E some \in BOOLEAN :
              cycle' = [cycle EXCEPT !.tickers = some] /\ pc' = "holdings"
       \/ Raise(cycle, "get_current_price_alpha_vantage", "validate_ticker")
    /\ UNCHANGED <<input_vars, plan, executor_vars>>

(* analyze_all_holdings_with_news: get_positions, outside any try *)
Holdings ==
    /\ pc = "holdings"
    /\ \/ pc' = "history" /\ UNCHANGED cycle
       \/ Raise(cycle, "get_positions", "analyze_all_holdings_with_news")
    /\ UNCHANGED <<input_vars, plan, executor_vars>>

(* analyze_all_holdings_with_news: the price history of each symbol; a      *)
(* fetch that raises leaves "Price history unavailable."                    *)
History ==
    /\ pc = "history"
    /\ \/ UNCHANGED cycle
       \/ /\ positions # <<>> \/ cycle.tickers
          /\ cycle' = Recovered(cycle, "get_daily_prices_alpha_vantage")
    /\ pc' = "signal"
    /\ UNCHANGED <<input_vars, plan, executor_vars>>

(* analyze_trading_signal: generate_content raises or the text does not     *)
(* parse (three empty mappings); or json.loads gives the signals, or a      *)
(* value of another shape, returned as it is.                               *)
Signal ==
    /\ pc = "signal"
    /\ \/ /\ cycle' = Recovered(cycle, "analyze_trading_signal")
          /\ signals' = EmptySignals
       \/ /\ cycle' = Recovered([cycle EXCEPT !.shape["analyze_trading_signal"]
                                                  = "unparseable"],
                                "analyze_trading_signal")
          /\ signals' = EmptySignals
       \/ /\ cycle' = [cycle EXCEPT !.shape["analyze_trading_signal"] = "ok"]
          /\ signals' \in CycleSignals
       \/ \E s \in WrongShapes :
              /\ cycle' = [cycle EXCEPT !.shape["analyze_trading_signal"] = s]
              /\ signals' = EmptySignals
    /\ pc' = "plan"
    /\ UNCHANGED <<account, positions, pending, plan, executor_vars>>

(* generate_cash_allocation_plan as run_trading_logic_once calls it: a      *)
(* broker query raises; or a signal value that is not an object has no get  *)
(* or items; or the plan is returned, and executed if it has actions.       *)
CyclePlan ==
    /\ pc = "plan"
    /\ LET c == [cycle EXCEPT !.planned = TRUE]
       IN \/ /\ \E q \in BrokerQueries : Raise(c, q, "generate_cash_allocation_plan")
             /\ UNCHANGED plan
          \/ /\ c.shape["analyze_trading_signal"] \in WrongShapes
             /\ Raise(c, "generate_cash_allocation_plan", "run_trading_logic_once")
             /\ UNCHANGED plan
          \/ /\ c.shape["analyze_trading_signal"] \notin WrongShapes
             /\ \E feed \in [{d.symbol : d \in Range(BuyCandidates(signals, positions, pending))}
                                 -> FetchResults] :
                    LET p == GeneratePlan(account, positions, pending, signals, feed)
                    IN /\ plan' = p
                       /\ pc' = IF p.num_actions > 0 THEN "execute" ELSE "returned"
             /\ cycle' = c
    /\ UNCHANGED <<input_vars, executor_vars>>

(* execute_allocation_plan returned its result, or its last get_account     *)
(* raised                                                                   *)
EndCycle ==
    /\ \/ pc = "done" /\ pc' = "returned" /\ UNCHANGED cycle
       \/ pc = "raised" /\ Raise(cycle, "get_account", "execute_allocation_plan")
    /\ UNCHANGED <<input_vars, plan, executor_vars>>

(* The orders of this cycle the broker accepted, as open orders *)
OpenOrders ==
    LET accepted == SelectSeq(submitted, LAMBDA s : s.accepted)
    IN [i \in 1..Len(accepted) |->
           [symbol |-> accepted[i].symbol, side |-> accepted[i].side, qty |-> accepted[i].qty]]

(* run_trading_logic_loop: an hour later, the next cycle.  The broker has   *)
(* filled this cycle's orders or still has them open, with or without the   *)
(* orders that were open before.                                            *)
NextCycle ==
    /\ pc = "returned"
    /\ cycle.n < MaxCycles
    /\ cycle' = [FreshCycle(cycle.n + 1) EXCEPT
                     !.earlier = cycle.earlier \cup (IF cycle.error = NoError
                                                     THEN {} ELSE {cycle.error})]
    /\ pc' = "construct"
    /\ positions' \in CyclePositions
    /\ pending' \in {<<>>, OpenOrders, pending \o OpenOrders}
    /\ signals' = EmptySignals
    /\ plan' = NoPlan
    /\ sell_actions' = <<>> /\ buy_actions' = <<>> /\ idx' = 0
    /\ executed' = <<>> /\ failed' = <<>>
    /\ total_bought' = 0 /\ total_sold' = 0
    /\ submitted' = <<>> /\ audit' = <<>> /\ result' = NoResult
    /\ UNCHANGED account

CycleNext ==
    \/ Construct \/ FetchNews \/ AnalyzeSentiment \/ PredictMovement \/ ValidateTicker
    \/ Holdings \/ History \/ Signal \/ CyclePlan
    \/ StartExecute \/ SubmitSell \/ EndSells \/ SubmitBuy \/ FinishExecute
    \/ EndCycle \/ NextCycle

CycleSpec == CycleInit /\ [][CycleNext]_vars

---------------------------------------------------------------------------
Next == Plan

Spec == Init /\ [][Next]_vars

(* The planner on accounts whose cash decides the budget: cash below the    *)
(* reserve, cash that leaves a budget of $60 or $90 with a buying power of  *)
(* 1200, and cash far above the reserve.                                    *)
BudgetCashValues == {-500, 0, 1100, 1150, 10000}

BudgetAccounts == [cash : BudgetCashValues, buying_power : BuyingPowerValues,
                   portfolio_value : PortfolioValues]

BudgetPositions == {<<>>, <<[symbol |-> "AAPL", qty |-> 1000, current_price |-> 50]>>}

BudgetInit ==
    /\ account \in BudgetAccounts
    /\ positions \in BudgetPositions
    /\ pending = <<>>
    /\ signals \in SignalSets
    /\ plan = NoPlan
    /\ pc = "plan"
    /\ ExecutorIdle
    /\ cycle = FreshCycle(1)

BudgetSpec == BudgetInit /\ [][Next]_vars

---------------------------------------------------------------------------
(* Floating-point arithmetic *)

(* Python floats are IEEE 754 binary64.  A non-negative float is kept as    *)
(* m * 2^e with m = 0 or 2^52 <= m < 2^53, m a natural number of any size:  *)
(* a little-endian sequence of limbs below Limb.  Every operation gives the *)
(* exact result rounded to nearest, ties to even, as the hardware does.     *)
LimbBits == 15
MantissaBits == 53

RECURSIVE TwoTo(_)
TwoTo(n) == IF n = 0 THEN 1 ELSE 2 * TwoTo(n - 1)

Limb == TwoTo(LimbBits)

RECURSIVE NatTrim(_)
NatTrim(a) ==
    IF a # <<>> /\ a[Len(a)] = 0 THEN NatTrim(SubSeq(a, 1, Len(a) - 1)) ELSE a

RECURSIVE NatOf(_)
NatOf(n) == IF n = 0 THEN <<>> ELSE <<n % Limb>> \o NatOf(n \div Limb)

RECURSIVE NatToInt(_)
NatToInt(a) == IF a = <<>> THEN 0 ELSE Head(a) + Limb * NatToInt(Tail(a))

RestOf(a) == IF a = <<>> THEN a ELSE Tail(a)
LowOf(a) == IF a = <<>> THEN 0 ELSE Head(a)

RECURSIVE NatAddCarry(_, _, _)
NatAddCarry(a, b, carry) ==
    IF a = <<>> /\ b = <<>>
    THEN (IF carry = 0 THEN <<>> ELSE <<carry>>)
    ELSE LET s == LowOf(a) + LowOf(b) + carry
         IN <<s % Limb>> \o NatAddCarry(RestOf(a), RestOf(b), s \div Limb)

NatAdd(a, b) == NatAddCarry(a, b, 0)

(* a - b for a >= b *)
RECURSIVE NatSubBorrow(_, _, _)
NatSubBorrow(a, b, borrow) ==
    IF a = <<>> THEN <<>>
    ELSE LET d == Head(a) - LowOf(b) - borrow
         IN <<(d + Limb) % Limb>>
                \o NatSubBorrow(Tail(a), RestOf(b), IF d < 0 THEN 1 ELSE 0)

NatSub(a, b) == NatTrim(NatSubBorrow(a, b, 0))

RECURSIVE NatLessFrom(_, _, _)
NatLessFrom(a, b, i) ==
    IF i = 0 THEN FALSE
    ELSE IF a[i] # b[i] THEN a[i] < b[i]
    ELSE NatLessFrom(a, b, i - 1)

NatLess(a, b) ==
    IF Len(a) # Len(b) THEN Len(a) < Len(b) ELSE NatLessFrom(a, b, Len(a))

RECURSIVE NatMulSmall(_, _, _)
NatMulSmall(a, k, carry) ==
    IF a = <<>>
    THEN (IF carry = 0 THEN <<>> ELSE <<carry>>)
    ELSE LET p == Head(a) * k + carry
         IN <<p % Limb>> \o NatMulSmall(Tail(a), k, p \div Limb)

RECURSIVE NatMul(_, _)
NatMul(a, b) ==
    IF a = <<>> \/ b = <<>> THEN <<>>
    ELSE NatTrim(NatAdd(NatMulSmall(a, Head(b), 0), <<0>> \o NatMul(a, Tail(b))))

(* a * 2^n and floor(a / 2^n): whole limbs, then the bits within a limb *)
NatShlBits(a, n) == NatMulSmall(a, TwoTo(n), 0)

NatShrBits(a, n) ==
    NatTrim([i \in 1..Len(a) |->
                 a[i] \div TwoTo(n)
                     + (IF i < Len(a) THEN (a[i + 1] % TwoTo(n)) * TwoTo(LimbBits - n)
                        ELSE 0)])

NatShl(a, n) ==
    IF a = <<>> THEN a
    ELSE [i \in 1..(n \div LimbBits) |-> 0] \o NatShlBits(a, n % LimbBits)

NatShr(a, n) ==
    IF n \div LimbBits >= Len(a) THEN <<>>
    ELSE NatShrBits(SubSeq(a, (n \div LimbBits) + 1, Len(a)), n % LimbBits)

RECURSIVE BitsOfLimb(_)
BitsOfLimb(x) == IF x = 0 THEN 0 ELSE 1 + BitsOfLimb(x \div 2)

NatBits(a) == IF a = <<>> THEN 0 ELSE LimbBits * (Len(a) - 1) + BitsOfLimb(a[Len(a)])

NatOdd(a) == a # <<>> /\ a[1] % 2 = 1

(* The element of a one-element set.  An operand is a value once, as in     *)
(* Python, when it is bound by \in: The({F(x) : x \in {e}}) computes e one  *)
(* time, however often F uses x.                                            *)
The(S) == CHOOSE x \in S : TRUE

(* Long division of a * 2^k by b, for a < 2 * b: st holds the quotient and  *)
(* the remainder so far, and each step brings down one more bit, a zero.    *)
NatDivStep(b, st) ==
    LET r2 == NatShlBits(st.r, 1)
        q2 == NatShlBits(st.q, 1)
    IN IF NatLess(r2, b)
       THEN [q |-> q2, r |-> r2]
       ELSE [q |-> NatAdd(q2, <<1>>), r |-> NatSub(r2, b)]

RECURSIVE NatDivBits(_, _, _)
NatDivBits(b, k, st) ==
    IF k = 0 THEN st
    ELSE The({NatDivBits(b, k - 1, next) : next \in {NatDivStep(b, st)}})

(* n rounds of 14 bits each *)
RECURSIVE NatDivRounds(_, _, _)
NatDivRounds(b, n, st) ==
    IF n = 0 THEN st
    ELSE The({NatDivBits(b, 14, prev) : prev \in {NatDivRounds(b, n - 1, st)}})

NatDivShifted(a, b) ==
    The({NatDivRounds(b, 4, st) :
             st \in {IF NatLess(a, b) THEN [q |-> <<>>, r |-> a]
                     ELSE [q |-> <<1>>, r |-> NatSub(a, b)]}})

FloatZero == [m |-> <<>>, e |-> 0]

(* (n + f) * 2^e rounded to a float, f a fraction in [0, 1) that is not 0   *)
(* when sticky: to nearest, ties to even                                    *)
(* The mantissa after the carry of rounding up *)
Rounded(m, e) ==
    IF NatBits(m) > MantissaBits
    THEN [m |-> NatShrBits(m, 1), e |-> e + 1]
    ELSE [m |-> m, e |-> e]

(* n = q * 2^s + r: up when r is over half of 2^s, or is the half and the   *)
(* tie goes up                                                              *)
RoundUp(q, r, half, sticky) ==
    IF NatLess(half, r) \/ (r = half /\ (sticky \/ NatOdd(q)))
    THEN NatAdd(q, <<1>>)
    ELSE q

RoundBits(n, len, e, sticky) ==
    IF len <= MantissaBits
    THEN [m |-> NatShl(n, MantissaBits - len), e |-> e - (MantissaBits - len)]
    ELSE The({
             The({
                 The({Rounded(m, e + s) : m \in {RoundUp(q, r, half, sticky)}}) :
                     r \in {NatSub(n, NatShl(q, s))}, half \in {NatShl(<<1>>, s - 1)}}) :
                 s \in {len - MantissaBits}, q \in {NatShr(n, len - MantissaBits)}})

RoundNat(n, e, sticky) ==
    IF n = <<>> THEN FloatZero
    ELSE The({RoundBits(n, len, e, sticky) : len \in {NatBits(n)}})

RoundFloat(n, e, sticky) == The({RoundNat(v, e, sticky) : v \in {n}})

(* float(n) of a natural number below 2^31 *)
FloatOf(n) == RoundFloat(NatOf(n), 0, FALSE)

(* Both mantissas at the lower of the two exponents *)
Aligned(x, y) ==
    LET e == IF x.e < y.e THEN x.e ELSE y.e
    IN [x |-> NatShl(x.m, x.e - e), y |-> NatShl(y.m, y.e - e), e |-> e]

FloatAdd(a, b) ==
    The({IF x.m = <<>> THEN y
         ELSE IF y.m = <<>> THEN x
         ELSE The({RoundFloat(NatAdd(al.x, al.y), al.e, FALSE) :
                       al \in {Aligned(x, y)}}) :
             x \in {a}, y \in {b}})

(* a - b for a >= b *)
FloatSub(a, b) ==
    The({IF y.m = <<>> THEN x
         ELSE The({RoundFloat(NatSub(al.x, al.y), al.e, FALSE) :
                       al \in {Aligned(x, y)}}) :
             x \in {a}, y \in {b}})

FloatMul(a, b) ==
    The({IF x.m = <<>> \/ y.m = <<>> THEN FloatZero
         ELSE RoundFloat(NatMul(x.m, y.m), x.e + y.e, FALSE) :
             x \in {a}, y \in {b}})

(* a / b for b > 0: the quotient of the mantissas to 56 more bits *)
FloatDiv(a, b) ==
    The({IF x.m = <<>> THEN FloatZero
         ELSE The({RoundFloat(d.q, x.e - y.e - 56, d.r # <<>>) :
                       d \in {NatDivShifted(x.m, y.m)}}) :
             x \in {a}, y \in {b}})

FloatLess(a, b) ==
    The({IF y.m = <<>> THEN FALSE
         ELSE IF x.m = <<>> THEN TRUE
         ELSE The({NatLess(al.x, al.y) : al \in {Aligned(x, y)}}) :
             x \in {a}, y \in {b}})

FloatMin(a, b) == The({IF FloatLess(y, x) THEN y ELSE x : x \in {a}, y \in {b}})
FloatMax(a, b) == The({IF FloatLess(x, y) THEN y ELSE x : x \in {a}, y \in {b}})

(* int(a) *)
FloatTrunc(a) ==
    The({IF x.m = <<>> THEN 0
         ELSE IF x.e >= 0 THEN NatToInt(NatShl(x.m, x.e))
         ELSE NatToInt(NatShr(x.m, 0 - x.e)) : x \in {a}})

---------------------------------------------------------------------------
(* generate_cash_allocation_plan as Python computes it: every amount a      *)
(* float.  For accounts with buying_power >= 1000 and cash >= 0.            *)

(* The float of n tenths and of n hundredths: what json.loads gives for a   *)
(* strength, and the literals 0.25, 0.6, 0.4, 0.08, 0.5                     *)
FloatTenths == [n \in 0..StrengthUnit |-> FloatDiv(FloatOf(n), FloatOf(StrengthUnit))]
FloatPct ==
    [n \in {ReservePct, MaxPositionPct, AvailablePct, BuyingPowerPct} |->
         FloatDiv(FloatOf(n), FloatOf(100))]

(* An amount in 1/MoneyUnit dollars as a float of dollars *)
FloatMoney(n) == FloatDiv(FloatOf(n), FloatOf(MoneyUnit))

float_safe_cash_reserve(acc) ==
    FloatMax(FloatOf(MinReserve), FloatMul(FloatOf(acc.buying_power), FloatPct[ReservePct]))

float_available_for_buys(acc, sell_proceeds) ==
    The({IF FloatLess(funds, reserve) THEN FloatZero
         ELSE FloatMin(FloatSub(funds, reserve),
                       FloatSub(FloatOf(acc.buying_power), reserve)) :
             reserve \in {float_safe_cash_reserve(acc)},
             funds \in {FloatAdd(FloatOf(acc.cash), sell_proceeds)}})

float_max_per_position(acc) ==
    FloatMul(FloatOf(acc.portfolio_value), FloatPct[MaxPositionPct])

float_budget_allocation(acc, sell_proceeds) ==
    FloatMin(FloatMul(float_available_for_buys(acc, sell_proceeds), FloatPct[AvailablePct]),
             FloatMul(FloatOf(acc.buying_power), FloatPct[BuyingPowerPct]))

(* max(0.5, strength) *)
FloatWeight(c) == FloatMax(FloatTenths[MinWeight], FloatTenths[c.strength])

(* sum(...) over the candidates in their order, from 0 *)
RECURSIVE FloatSum(_, _)
FloatSum(cands, sum) ==
    IF cands = <<>> THEN sum
    ELSE FloatSum(Tail(cands), FloatAdd(sum, FloatWeight(Head(cands))))

float_total_strength(cands) == FloatSum(cands, FloatZero)

(* (strength / sum_strength) * budget_allocation, capped to               *)
(* max_per_position and to what is left of the budget                       *)
FloatAllocation(c, budget, max_pos, sum_strength, total_buy) ==
    LET proportional == FloatMul(FloatDiv(FloatWeight(c), sum_strength), budget)
    IN The({IF FloatLess(budget, FloatAdd(total_buy, capped))
            THEN (IF FloatLess(budget, total_buy) THEN FloatZero
                  ELSE FloatSub(budget, total_buy))
            ELSE capped :
                capped \in {FloatMin(proportional, max_pos)}})

(* One pass of the loop over buy_candidates *)
FloatBought(c, walk, allocation, current_price, quantity) ==
    IF quantity > 0
    THEN [actions |-> Append(walk.actions,
             [symbol |-> c.symbol, action |-> "buy", quantity |-> quantity,
              price_allocation |-> allocation, strength |-> FloatWeight(c),
              category |-> c.category, current_price |-> current_price]),
          total_buy_allocation |-> FloatAdd(walk.total_buy_allocation, allocation),
          remaining_buying_power |-> FloatSub(walk.remaining_buying_power, allocation)]
    ELSE walk

FloatBuyFetch(c, walk, allocation, fetch) ==
    IF FloatLess(walk.remaining_buying_power, allocation) THEN walk
    ELSE IF FloatLess(allocation, FloatOf(MinTrade)) THEN walk
    ELSE IF fetch.kind = "raise" THEN walk
    ELSE The({FloatBought(c, walk, allocation, FetchedPrice(fetch), quantity) :
                  quantity \in {FloatTrunc(FloatDiv(allocation,
                                                    FloatOf(FetchedPrice(fetch))))}})

FloatBuyStep(c, walk, budget, max_pos, sum_strength, feed) ==
    The({FloatBuyFetch(c, walk, allocation, feed[c.symbol]) :
             allocation \in {FloatAllocation(c, budget, max_pos, sum_strength,
                                             walk.total_buy_allocation)}})

RECURSIVE FloatBuyWalk(_, _, _, _, _, _)
FloatBuyWalk(cands, walk, budget, max_pos, sum_strength, feed) ==
    IF cands = <<>> THEN walk
    ELSE The({FloatBuyWalk(Tail(cands), next, budget, max_pos, sum_strength, feed) :
                  next \in {FloatBuyStep(Head(cands), walk, budget, max_pos,
                                         sum_strength, feed)}})

FloatBuyPhase(acc, cands, budget, feed) ==
    The({IF FloatLess(FloatOf(MinBudget), budget) /\ Len(cands) > 0
         THEN The({FloatBuyWalk(cands, start, budget, max_pos, sum_strength, feed) :
                       max_pos \in {float_max_per_position(acc)},
                       sum_strength \in {float_total_strength(cands)}})
         ELSE start :
             start \in {[actions |-> <<>>, total_buy_allocation |-> FloatZero,
                         remaining_buying_power |->
                             FloatSub(FloatOf(acc.buying_power),
                                      float_safe_cash_reserve(acc))]}})

(* The plan, with the locals budget_allocation, total_strength and the      *)
(* sorted buy_candidates and what the price fetch answered                  *)
FloatPlanOf(acc, orders, sells, cands, sell_proceeds, budget, walk, funds, negative, feed) ==
    [actions |->
         [i \in 1..Len(sells) |->
              [sells[i] EXCEPT !.price_allocation = FloatMoney(sells[i].price_allocation),
                               !.strength = FloatTenths[sells[i].strength]]]
             \o walk.actions,
     den |-> 1,
     cash_available |-> FloatOf(acc.cash),
     cash_remaining |-> IF negative THEN FloatZero
                        ELSE FloatSub(funds, walk.total_buy_allocation),
     total_allocation |-> IF negative THEN funds
                          ELSE FloatAdd(sell_proceeds, walk.total_buy_allocation),
     portfolio_value |-> FloatOf(acc.portfolio_value),
     num_actions |-> Len(sells) + Len(walk.actions),
     pending_buys |-> PendingMap(orders, "buy"),
     pending_sells |-> PendingMap(orders, "sell"),
     total_sell_proceeds |-> sell_proceeds,
     total_buy_allocation |-> walk.total_buy_allocation,
     budget_allocation |-> budget,
     total_strength |-> float_total_strength(cands),
     candidates |-> cands,
     price_history |-> feed]

FloatPlanOfBuys(acc, orders, sells, cands, sell_proceeds, budget, walk, feed) ==
    The({FloatPlanOf(acc, orders, sells, cands, sell_proceeds, budget, walk, funds,
                     FloatLess(funds, walk.total_buy_allocation), feed) :
             funds \in {FloatAdd(FloatOf(acc.cash), sell_proceeds)}})

FloatPlanOfSells(acc, orders, sells, cands, sell_proceeds, feed) ==
    The({The({FloatPlanOfBuys(acc, orders, sells, cands, sell_proceeds, budget, walk, feed) :
                  walk \in {FloatBuyPhase(acc, cands, budget, feed)}}) :
             budget \in {float_budget_allocation(acc, sell_proceeds)}})

GenerateFloatPlan(acc, pos, orders, sigs, feed) ==
    The({The({FloatPlanOfSells(acc, orders, sells, cands, sell_proceeds, feed) :
                  sell_proceeds \in {FloatMoney(SumAllocation(sells))}}) :
             sells \in {SellPhase(pos, sigs, orders)},
             cands \in {SortCandidates(BuyCandidates(sigs, pos, orders))}})

WalkAccounts == [cash : {10000}, buying_power : {10000},
                 portfolio_value : {10000, 100000}]

(* At most one buy per mapping: for AAPL when held, for TSLA or AAPL from   *)
(* the news, for TSLA as a new candidate                                    *)
WalkEntry(symbol, strength) ==
    <<[symbol |-> symbol, signal |-> [action |-> "buy", strength |-> strength]]>>

WalkSignals ==
    [portfolio_signals : {<<>>, WalkEntry("AAPL", 6)},
     news_opportunities : {<<>>, WalkEntry("AAPL", 6), WalkEntry("TSLA", 7)},
     new_buy_candidates : {<<>>, WalkEntry("TSLA", 7)}]

WalkInit ==
    /\ account \in WalkAccounts
    /\ positions \in BudgetPositions
    /\ pending = <<>>
    /\ signals \in WalkSignals
    /\ plan = NoPlan
    /\ pc = "plan"
    /\ ExecutorIdle
    /\ cycle = FreshCycle(1)

FloatPlan ==
    /\ pc = "plan"
    /\ \E feed \in [{c.symbol : c \in Range(BuyCandidates(signals, positions, pending))}
                        -> FetchResults] :
           plan' = GenerateFloatPlan(account, positions, pending, signals, feed)
    /\ pc' = "planned"
    /\ UNCHANGED <<cycle, input_vars, executor_vars>>

WalkNext == FloatPlan

WalkSpec == WalkInit /\ [][WalkNext]_vars

---------------------------------------------------------------------------
(* Properties of the plan *)

Planned == pc = "planned"

BuysOf(p) == SelectSeq(p.actions, LAMBDA a : a.action = "buy")
SellsOf(p) == SelectSeq(p.actions, LAMBDA a : a.action = "sell")

(* The held position of a symbol *)
PositionOf(symbol) == CHOOSE p \in Range(positions) : p.symbol = symbol

HasOpenOrder(symbol, side) ==
    \E i \in 1..Len(pending) : pending[i].symbol = symbol /\ pending[i].side = side

(* What the plan's cash would be without the clamp *)
UnclampedCash(p) == p.cash_available + p.total_sell_proceeds - p.total_buy_allocation

(* C1: every plan generate_cash_allocation_plan returns has                 *)
(* cash_remaining >= 0, whatever the account, the positions, the pending    *)
(* orders and the signals.                                                  *)
C1_CashRemainingNonNegative == Planned => plan.cash_remaining >= 0

(* A plan with actions whose cash would have been negative *)
C1_Witness ==
    /\ Planned
    /\ plan.num_actions > 0
    /\ UnclampedCash(plan) < 0
    /\ plan.cash_remaining = 0

(* C2: no buy action names a symbol with an open buy order in the snapshot  *)
(* of pending orders the planner read, and no sell action a symbol with an  *)
(* open sell order in it.                                                   *)
C2_NoActionOnPendingSide ==
    Planned =>
        \A i \in 1..Len(plan.actions) :
            ~HasOpenOrder(plan.actions[i].symbol, plan.actions[i].action)

(* A buy signal for each symbol, an open buy order for one of them: the     *)
(* plan buys the other one only.                                            *)
C2_Witness ==
    /\ Planned
    /\ \E s, t \in Symbols :
        /\ s # t
        /\ HasOpenOrder(s, "buy")
        /\ \E e \in Range(signals.news_opportunities) :
               e.symbol = s /\ ActionOf(e.signal) = "buy"
        /\ \E i \in 1..Len(plan.actions) :
               plan.actions[i].symbol = t /\ plan.actions[i].action = "buy"
        /\ \A i \in 1..Len(plan.actions) : plan.actions[i].symbol # s

C4_TotalAllocationIsSum ==
    Planned =>
        plan.total_allocation = SumAllocation(SellsOf(plan)) + SumAllocation(BuysOf(plan))

(* C5: no sell action sells more shares than the position holds (held       *)
(* quantities are in 1/QtyUnit shares).                                     *)
C5_SellWithinHolding ==
    Planned =>
        \A i \in 1..Len(plan.actions) :
            plan.actions[i].action = "sell" =>
                plan.actions[i].quantity * QtyUnit <= PositionOf(plan.actions[i].symbol).qty

(* The portfolio signal of a symbol is a sell of at least the given strength *)
HasSellSignal(symbol, least) ==
    \E e \in Range(signals.portfolio_signals) :
        /\ e.symbol = symbol
        /\ "action" \in DOMAIN e.signal /\ e.signal.action = "sell"
        /\ "strength" \in DOMAIN e.signal /\ e.signal.strength >= least

ComputedAllocation(c) ==
    Min(Weight(c) * plan.budget_allocation,
        max_per_position(account) * plan.den * plan.den)

HasBuyAction(c) ==
    \E i \in 1..Len(plan.actions) :
        /\ plan.actions[i].action = "buy"
        /\ plan.actions[i].symbol = c.symbol
        /\ plan.actions[i].category = c.category

(* C10: no buy action is below $50, and a candidate allotted less than $50  *)
(* gets no action at all.                                                   *)
C10_NoTradeBelowMinimum ==
    Planned =>
        /\ \A i \in 1..Len(plan.actions) :
               plan.actions[i].action = "buy" =>
                   plan.actions[i].price_allocation >= 50 * MoneyUnit * plan.den
        /\ \A j \in 1..Len(plan.candidates) :
               ComputedAllocation(plan.candidates[j]) < 50 * MoneyUnit * plan.den * plan.den
                   => ~HasBuyAction(plan.candidates[j])

(* A candidate allotted less than $50 is passed over and a later one bought *)
C10_Witness ==
    /\ Planned
    /\ plan.budget_allocation > 100 * MoneyUnit * plan.den
    /\ \E j, k \in 1..Len(plan.candidates) :
           /\ j < k
           /\ ComputedAllocation(plan.candidates[j]) < 50 * MoneyUnit * plan.den * plan.den
           /\ ~HasBuyAction(plan.candidates[j])
           /\ HasBuyAction(plan.candidates[k])

(* The reference computation of the buy allocations, written out with its   *)
(* numbers, in 1/MoneyUnit dollars.                                         *)
Clamp(x, lo, hi) == Max(lo, Min(x, hi))

RefReserve == Max(1000 * MoneyUnit, (25 * account.buying_power * MoneyUnit) \div 100)

RefAvailable ==
    Clamp(account.cash * MoneyUnit + SumAllocation(SellsOf(plan)) \div plan.den - RefReserve,
          0, account.buying_power * MoneyUnit - RefReserve)

RefBudget ==
    Min((60 * RefAvailable) \div 100, (40 * account.buying_power * MoneyUnit) \div 100)

RefCap == (8 * account.portfolio_value * MoneyUnit) \div 100

(* w = max(0.5, strength), in 1/StrengthUnit, and SUM(w) over the candidates *)
RefWeight(c) == IF c.strength >= 5 THEN c.strength ELSE 5

RECURSIVE RefTotalWeight(_)
RefTotalWeight(cands) ==
    IF cands = <<>> THEN 0 ELSE RefWeight(Head(cands)) + RefTotalWeight(Tail(cands))

(* The candidate a buy action was emitted for *)
CandidateOf(a) ==
    CHOOSE c \in Range(plan.candidates) : c.symbol = a.symbol /\ c.category = a.category

C12_PerPositionCap ==
    Planned =>
        \A i \in 1..Len(plan.actions) :
            plan.actions[i].action = "buy" =>
                plan.actions[i].price_allocation
                    <= ((8 * account.portfolio_value * MoneyUnit) \div 100) * plan.den

(* Two candidates whose shares of the budget are both above the cap, both   *)
(* bought at the cap                                                        *)
C12_Witness ==
    /\ Planned
    /\ Len(BuysOf(plan)) = 2
    /\ \A i \in 1..Len(plan.actions) :
           /\ plan.actions[i].action = "buy"
           /\ RefWeight(CandidateOf(plan.actions[i])) * RefBudget
                  > RefCap * RefTotalWeight(plan.candidates)
           /\ plan.actions[i].price_allocation = RefCap * plan.den

(* C17: a sell action sells less than the position holds (held quantities  *)
(* are in 1/QtyUnit shares): some of the position is kept.                  *)
C17_SellKeepsSomeShares ==
    Planned =>
        \A i \in 1..Len(plan.actions) :
            plan.actions[i].action = "sell" =>
                plan.actions[i].quantity * QtyUnit < PositionOf(plan.actions[i].symbol).qty

(* The candidates the three rules give, with the strength they are given *)
RuleCandidates ==
    LET held == {p.symbol : p \in Range(positions)}
        open == {pending[i].symbol : i \in {k \in 1..Len(pending) : pending[k].side = "buy"}}
        strength(e) == IF "strength" \in DOMAIN e.signal THEN e.signal.strength ELSE 5
    IN {[symbol |-> e.symbol, strength |-> strength(e), priority |-> 3,
         category |-> "portfolio_increase"] :
            e \in {x \in Range(signals.portfolio_signals) :
                      /\ x.symbol \in held /\ x.symbol \notin open
                      /\ x.signal.action = "buy"}}
       \cup
       {[symbol |-> e.symbol, strength |-> strength(e), priority |-> 2,
         category |-> "news_opportunity"] :
            e \in {x \in Range(signals.news_opportunities) :
                      /\ x.symbol \notin held /\ x.symbol \notin open
                      /\ x.signal.action \in {"buy", "strong_buy"}}}
       \cup
       {[symbol |-> e.symbol, strength |-> strength(e), priority |-> 1,
         category |-> "new_candidate"] :
            e \in {x \in Range(signals.new_buy_candidates) :
                      /\ x.symbol \notin held /\ x.symbol \notin open
                      /\ x.signal.action = "buy" /\ strength(x) >= 6}}

(* C18: the buy candidates are those of the three rules and no other: a     *)
(* held symbol through portfolio_signals with action buy (priority 3), a    *)
(* symbol not held through news_opportunities with action buy or strong_buy *)
(* (priority 2) or through new_buy_candidates with action buy and strength  *)
(* >= 0.6, a missing strength being 0.5 (priority 1), and never a symbol    *)
(* with an open buy order.                                                  *)
C18_CandidateRules ==
    Planned =>
        /\ Range(plan.candidates) = RuleCandidates
        /\ Len(plan.candidates) = Cardinality(RuleCandidates)

(* A held symbol with a buy in portfolio_signals and another in             *)
(* news_opportunities is one candidate, of priority 3                       *)
C18_Witness ==
    /\ Planned
    /\ \E s \in HeldSymbols(positions) :
           /\ \E e \in Range(signals.portfolio_signals) :
                  e.symbol = s /\ ActionOf(e.signal) = "buy"
           /\ \E e \in Range(signals.news_opportunities) :
                  e.symbol = s /\ ActionOf(e.signal) = "buy"
    /\ Len(plan.candidates) = 1
    /\ plan.candidates[1].priority = 3

(* a is not ranked after b: higher priority, or the same and not weaker *)
RankedBefore(a, b) ==
    \/ a.priority > b.priority
    \/ a.priority = b.priority /\ a.strength >= b.strength

(* C19: the candidates are walked, and the buy actions listed, by priority  *)
(* descending and, within a priority, by strength descending.               *)
C19_WalkOrder ==
    Planned =>
        /\ \A i, j \in 1..Len(plan.candidates) :
               i < j => RankedBefore(plan.candidates[i], plan.candidates[j])
        /\ LET buys == BuysOf(plan)
           IN \A i, j \in 1..Len(buys) :
                  i < j => RankedBefore(CandidateOf(buys[i]), CandidateOf(buys[j]))

(* Two buy actions, the first of priority 3 and of lower strength than the  *)
(* second, of priority 2                                                    *)
C19_Witness ==
    /\ Planned
    /\ Len(BuysOf(plan)) = 2
    /\ CandidateOf(BuysOf(plan)[1]).priority = 3
    /\ CandidateOf(BuysOf(plan)[2]).priority = 2
    /\ CandidateOf(BuysOf(plan)[1]).strength < CandidateOf(BuysOf(plan)[2]).strength

(* C20: when a candidate gets a buy action, every candidate before it in    *)
(* the walk whose symbol has the same share price gets one too.             *)
C20_FundedInRankOrder ==
    Planned =>
        \A i, j \in 1..Len(plan.candidates) :
            LET before == plan.candidates[i]
                after == plan.candidates[j]
            IN /\ i < j
               /\ HasBuyAction(after)
               /\ plan.price_history[before.symbol] = plan.price_history[after.symbol]
               => HasBuyAction(before)

(* C21: a symbol not held is a candidate through new_buy_candidates only    *)
(* when news_opportunities does not make it one, and no symbol is in more   *)
(* than one buy action of a plan.                                           *)
C21_OneBuyPerSymbol ==
    Planned =>
        /\ \A i, j \in 1..Len(plan.candidates) :
               i # j => plan.candidates[i].symbol # plan.candidates[j].symbol
        /\ LET buys == BuysOf(plan)
           IN \A i, j \in 1..Len(buys) : i # j => buys[i].symbol # buys[j].symbol

(* The share price and the number of shares a candidate's allocation buys *)
PriceOf(c) == FetchedPrice(plan.price_history[c.symbol])
SharesOf(c) == ComputedAllocation(c) \div (PriceOf(c) * MoneyUnit * plan.den * plan.den)

(* The candidate passes every check of the walk: its allocation is at least *)
(* $50 and within the buying power above the reserve, its price history was *)
(* fetched and the allocation buys at least one share.                      *)
Fundable(c) ==
    /\ ComputedAllocation(c) >= 50 * MoneyUnit * plan.den * plan.den
    /\ ComputedAllocation(c) \div (plan.den * plan.den)
           <= account.buying_power * MoneyUnit - RefReserve
    /\ plan.price_history[c.symbol].kind # "raise"
    /\ SharesOf(c) >= 1

C23_DefaultPriceOnFailedFetch ==
    Planned /\ plan.budget_allocation > 100 * MoneyUnit * plan.den =>
        \A j \in 1..Len(plan.candidates) :
            LET c == plan.candidates[j]
                shares == ComputedAllocation(c) \div (100 * MoneyUnit * plan.den * plan.den)
            IN /\ plan.price_history[c.symbol].kind # "list"
               /\ ComputedAllocation(c) \div (plan.den * plan.den)
                      <= account.buying_power * MoneyUnit - RefReserve
               /\ shares >= 1
               => \E i \in 1..Len(plan.actions) :
                      /\ plan.actions[i].action = "buy"
                      /\ plan.actions[i].symbol = c.symbol
                      /\ plan.actions[i].category = c.category
                      /\ plan.actions[i].quantity = shares

(* cash + total_sell_proceeds - total_buy_allocation from the account and   *)
(* the actions of the plan, a numerator over plan.den                       *)
CashAfterPlan ==
    account.cash * MoneyUnit * plan.den
        + SumAllocation(SellsOf(plan)) - SumAllocation(BuysOf(plan))

C28_ReserveNeverSpent ==
    Planned =>
        /\ BuysOf(plan) # <<>> => plan.cash_remaining >= RefReserve * plan.den
        /\ account.cash * MoneyUnit * plan.den + SumAllocation(SellsOf(plan))
               <= RefReserve * plan.den
           => BuysOf(plan) = <<>>

(* With no cash, a sale brings 3500 against a reserve of 2500: the buy it   *)
(* pays for leaves less than twice the reserve, and not less than the       *)
(* reserve                                                                  *)
C28_Witness ==
    /\ Planned
    /\ account.cash = 0
    /\ BuysOf(plan) # <<>>
    /\ RefReserve = 2500 * MoneyUnit
    /\ plan.cash_remaining >= RefReserve * plan.den
    /\ plan.cash_remaining < 2 * RefReserve * plan.den

(* C29: no symbol has both a sell action and a buy action in one plan.      *)
C29_NoSellAndBuyOfOneSymbol ==
    Planned =>
        \A i, j \in 1..Len(plan.actions) :
            plan.actions[i].action = "sell" /\ plan.actions[j].action = "buy"
                => plan.actions[i].symbol # plan.actions[j].symbol

(* A held symbol is sold on its portfolio signal while news_opportunities   *)
(* says to buy it: the plan is the sale alone                               *)
C29_Witness ==
    /\ Planned
    /\ \E i \in 1..Len(plan.actions) :
           /\ plan.actions[i].action = "sell"
           /\ \E e \in Range(signals.news_opportunities) :
                  /\ e.symbol = plan.actions[i].symbol
                  /\ ActionOf(e.signal) \in {"buy", "strong_buy"}
    /\ account.cash = 10000 /\ account.buying_power = 10000
    /\ BuysOf(plan) = <<>>

(* The orders the candidates of the plan can be walked in *)
WalkOrders ==
    {o \in [1..Len(plan.candidates) -> 1..Len(plan.candidates)] :
         \A i, j \in 1..Len(plan.candidates) : i # j => o[i] # o[j]}

(* The buy actions as the claim compares them *)
BuySet(actions) ==
    {[symbol |-> a.symbol, category |-> a.category, quantity |-> a.quantity,
      price_allocation |-> a.price_allocation] :
         a \in {b \in Range(actions) : b.action = "buy"}}

(* C30: every buy action's allocation is min(w / SUM(w) * budget, 0.08 *    *)
(* portfolio_value), the cap to what is left of the budget reducing         *)
(* nothing, and walking the candidates in any other order gives the same    *)
(* buy actions (symbol, quantity, price_allocation).                        *)
C30_WalkIgnoresOrder ==
    Planned =>
        /\ \A i \in 1..Len(plan.actions) :
               plan.actions[i].action = "buy" =>
                   plan.actions[i].price_allocation =
                       FloatMin(FloatMul(FloatDiv(plan.actions[i].strength,
                                                  plan.total_strength),
                                         plan.budget_allocation),
                                float_max_per_position(account))
        /\ \A o \in WalkOrders :
               BuySet(FloatBuyPhase(account,
                                    [i \in 1..Len(plan.candidates) |-> plan.candidates[o[i]]],
                                    plan.budget_allocation, plan.price_history).actions)
                   = BuySet(plan.actions)

---------------------------------------------------------------------------
(* Properties of the execution *)

SubmissionKeys == Symbols \X Sides \X {1, 16}

InPlan(k) ==
    Cardinality({i \in 1..Len(plan.actions) :
        <<plan.actions[i].symbol, plan.actions[i].action, plan.actions[i].quantity>> = k})

InSubmitted(k, accepted) ==
    Cardinality({i \in 1..Len(submitted) :
        /\ <<submitted[i].symbol, submitted[i].side, submitted[i].qty>> = k
        /\ submitted[i].accepted = accepted})

InList(list, k) ==
    Cardinality({i \in 1..Len(list) :
        <<list[i].symbol, list[i].action, list[i].quantity>> = k})

(* C6: every sell action of the plan is submitted before any buy action,    *)
(* whatever the order of the plan's actions and whatever the broker         *)
(* answered before.                                                         *)
C6_SellsBeforeBuys ==
    \A j \in 1..Len(submitted) :
        submitted[j].side = "buy" =>
            Cardinality({i \in 1..j : submitted[i].side = "sell"}) = Len(SellsOf(plan))

(* A plan that lists a buy first; its sell is rejected, then the buy goes out *)
C6_Witness ==
    /\ pc = "done"
    /\ Len(plan.actions) >= 2
    /\ plan.actions[1].action = "buy"
    /\ Len(SellsOf(plan)) >= 1
    /\ submitted[1].side = "sell" /\ ~submitted[1].accepted
    /\ \E j \in 1..Len(submitted) : submitted[j].side = "buy"

(* C7: every action is submitted once; at return each is either in          *)
(* executed_actions (accepted) or in failed_actions (rejected),             *)
(* orders_placed + orders_failed is the number of actions and success_rate  *)
(* is executed / (executed + failed), 0 without actions.                    *)
C7_EveryActionAttemptedOnce ==
    /\ pc \in {"done", "raised"} =>
           \A k \in SubmissionKeys : InSubmitted(k, TRUE) + InSubmitted(k, FALSE) = InPlan(k)
    /\ result.returned =>
           /\ \A k \in SubmissionKeys :
                  /\ InList(result.executed_actions, k) = InSubmitted(k, TRUE)
                  /\ InList(result.failed_actions, k) = InSubmitted(k, FALSE)
                  /\ InList(result.executed_actions, k) + InList(result.failed_actions, k)
                         = InPlan(k)
           /\ result.orders_placed = Len(result.executed_actions)
           /\ result.orders_failed = Len(result.failed_actions)
           /\ result.orders_placed + result.orders_failed = Len(plan.actions)
           /\ result.success_rate.num * (result.orders_placed + result.orders_failed)
                  = result.orders_placed * result.success_rate.den
           /\ (Len(plan.actions) = 0 => result.success_rate.num = 0)

(* Three buys, the first rejected: 2 executed, 1 failed, success_rate 2/3 *)
C7_Witness ==
    /\ result.returned
    /\ Len(BuysOf(plan)) = 3
    /\ ~submitted[1].accepted
    /\ result.orders_placed = 2 /\ result.orders_failed = 1
    /\ result.success_rate = [num |-> 2, den |-> 3]

(* C27: there is exactly one audit record, with the broker's order id and   *)
(* status, for each order the broker accepted and none for a rejected one,  *)
(* so that audit records and executed_actions are equally many.             *)
C27_OneAuditRecordPerAcceptedOrder ==
    /\ Len(audit) = Len(executed)
    /\ \A j \in 1..Len(submitted) :
           Cardinality({i \in 1..Len(audit) :
                            /\ audit[i].order_id = submitted[j].id
                            /\ audit[i].symbol = submitted[j].symbol
                            /\ audit[i].action = submitted[j].side
                            /\ audit[i].status = "accepted"})
               = IF submitted[j].accepted THEN 1 ELSE 0

---------------------------------------------------------------------------
(* Properties of the cycle *)

(* C13: no exception escapes run_trading_logic_once.  Whatever call raised  *)
(* (the construction of the clients, the news, a quote, the model, a broker *)
(* query, the last get_account of the execution), the invocation has        *)
(* returned, and the loop can start the next cycle.                         *)
C13_NoExceptionEscapes ==
    /\ pc # "escaped"
    /\ cycle.error # NoError =>
           /\ pc = "returned"
           /\ cycle.n < MaxCycles => ENABLED NextCycle

(* The first cycle ended on the last get_account of the execution, the      *)
(* second on the construction of the clients                                *)
C13_Witness ==
    /\ cycle.n = 2
    /\ [call |-> "get_account", at |-> "execute_allocation_plan"] \in cycle.earlier
    /\ cycle.error.call = "RiskManager"
    /\ pc = "returned"

(* The news, quote, price and model calls that raised in this cycle *)
UpstreamRaised ==
    {c \in UpstreamCalls :
        /\ cycle.error.call = c \/ c \in cycle.recovered
        /\ c \in LLMCalls => cycle.shape[c] = "none"}

(* C14: when a news, quote, price or model call raised, the cycle still     *)
(* reached generate_cash_allocation_plan, and every action of a plan with   *)
(* actions was submitted.                                                   *)
C14_UpstreamErrorNotFatal ==
    pc = "returned" /\ UpstreamRaised # {} =>
        /\ cycle.planned
        /\ plan.num_actions > 0 => Len(submitted) = Len(plan.actions)

C16_MalformedOutputDegrades ==
    \A c \in LLMCalls :
        cycle.shape[c] \in WrongShapes \cup {"unparseable"} =>
            cycle.error.call \notin {c, "generate_cash_allocation_plan"}

(* C25: cycles run one at a time: a cycle starts with the executor idle and *)
(* no plan, and never while an order the previous cycle submitted is still  *)
(* open at the broker.                                                      *)
C25_NoCycleOverOpenOrders ==
    /\ pc = "construct" => ExecutorIdle /\ plan = NoPlan
    /\ cycle.n > 1 => pending = <<>>

(* C26: in a later cycle, while get_pending_orders still reports an order   *)
(* of an earlier cycle for a symbol and a side, the plan has no action for  *)
(* that symbol on that side and the cycle submits no such order.            *)
C26_NoReissueOfOpenOrder ==
    cycle.n > 1 =>
        /\ \A i \in 1..Len(plan.actions) :
               ~HasOpenOrder(plan.actions[i].symbol, plan.actions[i].action)
        /\ \A i \in 1..Len(submitted) :
               ~HasOpenOrder(submitted[i].symbol, submitted[i].side)

(* The sale of AAPL of the first cycle is still open in the second, whose   *)
(* signals sell AAPL again and buy TSLA: only the buy is planned and        *)
(* submitted                                                                *)
C26_Witness ==
    /\ cycle.n = 2 /\ cycle.planned
    /\ HasOpenOrder("AAPL", "sell") /\ ~HasOpenOrder("TSLA", "buy")
    /\ "AAPL" \in HeldSymbols(positions)
    /\ \E e \in Range(signals.portfolio_signals) :
           e.symbol = "AAPL" /\ ActionOf(e.signal) = "sell"
    /\ Len(plan.actions) = 1 /\ plan.actions[1].symbol = "TSLA"
    /\ Len(submitted) = 1 /\ submitted[1].symbol = "TSLA" /\ submitted[1].accepted

===========================================================================
